---- MODULE Spec2Model ----
(***************************************************************************)
(* Model of newproj.py: a sequential, interactive project scaffolder.      *)
(* One run of main() is modelled as a state machine whose program counter  *)
(* pc walks through the prompts, filesystem writes and external commands   *)
(* of the script.  Answers typed by the user and exit codes of external    *)
(* commands are inputs, drawn from small sets.  Every prompt shown, every  *)
(* external command run and every message printed is appended to trace.    *)
(***************************************************************************)
EXTENDS Integers, Sequences, FiniteSets

VARIABLES
    pc,          \* position of main() in the script
    baseExists,  \* base_path.exists()
    dirs,        \* sub-directories existing under base_path
    files,       \* content of each template path under base_path ("" = absent)
    before,      \* files as they were before the run (history)
    dirsBefore,  \* dirs as they were before the run (history)
    include_web, \* main: include_web
    idx,         \* index of the next safe_write_file call of create_project_structure
    gh_ready,    \* main: gh_ready
    visAnswer,   \* raw answer typed at the visibility prompt
    visibility,  \* push_to_github: visibility
    trace        \* prompts shown, commands run, messages printed, in order

vars == <<pc, baseExists, dirs, files, before, dirsBefore, include_web, idx,
          gh_ready, visAnswer, visibility, trace>>

----------------------------------------------------------------------------
(* Bounds of the model *)

\* at most this many template files exist before the run
MaxPreexisting == 2

----------------------------------------------------------------------------
(* Text typed at a prompt: a sequence of one-character strings *)

Blank == " "

\* what is typed around an answer: nothing, or a blank
Pads == { <<>>, <<Blank>> }

Padded(words) == { l \o w \o r : w \in words, l \in Pads, r \in Pads }

YesNoWords ==
    { <<>>, <<"y">>, <<"Y">>, <<"n">>, <<"N">>, <<"y", "e", "s">>, <<"y", " ", "y">> }

VisibilityWords ==
    { <<>>,
      <<"p", "u", "b", "l", "i", "c">>,
      <<"P", "u", "b", "l", "i", "c">>,
      <<"p", "r", "i", "v", "a", "t", "e">>,
      <<"p", "u", "b", " ", "l", "i", "c">>,
      <<"p", "u", "b">> }

YesNoAnswers == Padded(YesNoWords)
VisibilityAnswers == Padded(VisibilityWords)

\* str.lower() on one character
LowerChar(c) ==
    CASE c = "Y" -> "y"
      [] c = "N" -> "n"
      [] c = "P" -> "p"
      [] c = "U" -> "u"
      [] c = "B" -> "b"
      [] c = "L" -> "l"
      [] c = "I" -> "i"
      [] c = "C" -> "c"
      [] OTHER -> c

lower(s) == [i \in 1..Len(s) |-> LowerChar(s[i])]

RECURSIVE lstrip(_)
lstrip(s) == IF s # <<>> /\ Head(s) = Blank THEN lstrip(Tail(s)) ELSE s

RECURSIVE rstrip(_)
rstrip(s) ==
    IF s # <<>> /\ s[Len(s)] = Blank THEN rstrip(SubSeq(s, 1, Len(s) - 1)) ELSE s

strip(s) == rstrip(lstrip(s))

\* input(...).strip().lower()
Normalize(raw) == lower(strip(raw))

\* the test  answer == "y"  applied to a normalised answer
IsYes(raw) == Normalize(raw) = <<"y">>

Public == <<"p", "u", "b", "l", "i", "c">>
Private == <<"p", "r", "i", "v", "a", "t", "e">>

----------------------------------------------------------------------------
(* The fixed catalogue of create_project_structure *)

name == "demo"

BaseDirs == {"cli", "src", "tests", "db", "scripts"}
WebDirs == {"webapp", "webapp/templates"}
AllDirs == BaseDirs \cup WebDirs

\* dirs of create_project_structure
DirsFor(web) == IF web THEN BaseDirs \cup WebDirs ELSE BaseDirs

\* the safe_write_file calls of create_project_structure, in order
FileOrder ==
    << "README.md", ".gitignore", "LICENSE", "requirements.txt",
       "requirements-dev.txt", "pyproject.toml", "cli/main.py",
       "webapp/app.py", "webapp/templates/index.html" >>

AllFiles == { FileOrder[i] : i \in 1..Len(FileOrder) }

\* the web files written under no condition at all: never
WritesFor_no_web(web) == Len(FileOrder) - 2

\* number of safe_write_file calls made
WritesFor(web) == IF web THEN Len(FileOrder) ELSE Len(FileOrder) - 2

WebFiles == {"webapp/app.py", "webapp/templates/index.html"}

\* the template files of a run
FilesFor(web) == IF web THEN AllFiles ELSE AllFiles \ WebFiles

BASE_DEPENDENCIES == "psycopg2-binary"
DEV_DEPENDENCIES == "ruff\npytest"

\* the content argument of each safe_write_file call (README.md for the project
\* called demo; the quotes around the script's name are left out)
Template(f) ==
    CASE f = "README.md" -> "# demo\n\nProject generated with newproj.py."
      [] f = ".gitignore" -> ".venv/\n__pycache__/\n*.pyc\n.env\n"
      [] f = "LICENSE" -> "MIT License\n"
      [] f = "requirements.txt" -> "psycopg2-binary\n"
      [] f = "requirements-dev.txt" -> "ruff\npytest\n"
      [] f = "pyproject.toml" ->
           "[tool.ruff]\nline-length = 100\nexclude = [\"migrations\", \"tests/data\"]\ntarget-version = \"py311\"\n"
      [] f = "cli/main.py" ->
           "import argparse\n\ndef main():\n    parser = argparse.ArgumentParser(description=\"CLI Entry Point\")\n    args = parser.parse_args()\n    print(\"CLI is working!\")\n\nif __name__ == \"__main__\":\n    main()\n"
      [] f = "webapp/app.py" ->
           "from flask import Flask, render_template\n\napp = Flask(__name__)\n\n@app.route(\"/\")\ndef index():\n    return render_template(\"index.html\", title=\"Welcome\")\n\nif __name__ == \"__main__\":\n    app.run(debug=True)\n"
      [] f = "webapp/templates/index.html" ->
           "<!doctype html>\n<html>\n<head><title>{{ title }}</title></head>\n<body><h1>{{ title }}</h1></body>\n</html>\n"

----------------------------------------------------------------------------
(* The filesystem under base_path before the run *)

Absent == "<absent>"
OldContent == "edited by hand\n"

ParentDirs(f) ==
    CASE f = "cli/main.py" -> {"cli"}
      [] f = "webapp/app.py" -> {"webapp"}
      [] f = "webapp/templates/index.html" -> {"webapp", "webapp/templates"}
      [] OTHER -> {}

NoFiles == [f \in AllFiles |-> Absent]

\* up to MaxPreexisting of the template paths exist already, with text of their own
InitialFiles ==
    { [f \in AllFiles |-> IF f \in S THEN OldContent ELSE Absent] :
        S \in { X \in SUBSET AllFiles : Cardinality(X) <= MaxPreexisting } }

Existing(fs) == { f \in AllFiles : fs[f] # Absent }

\* the directories that hold the existing files
InitialDirs(fs) == UNION { ParentDirs(f) : f \in Existing(fs) }

----------------------------------------------------------------------------
(* Observable events *)

Ev(kind, what, file, ans, rc) ==
    [kind |-> kind, name |-> what, file |-> file, ans |-> ans, rc |-> rc]

\* input(...): the prompt shown and whether the answer passed the  == "y"  test
Prompt(what, file, yes) == Ev("prompt", what, file, IF yes THEN "y" ELSE "other", 0)
\* print(...)
Printed(what, file) == Ev("print", what, file, "", 0)
\* subprocess.run(...) and its exit code
Cmd(what, rc) == Ev("cmd", what, "", "", rc)
\* subprocess.run(...) of a command whose exit code the script never looks at
Ran(what) == Ev("cmd", what, "", "exit code ignored", 0)
\* shutil.which(...) and whether it found the program
Which(what, found) == Ev("which", what, "", IF found THEN "found" ELSE "missing", 0)

\* exit codes of the external commands: success and failure
ExitCodes == {0, 1}

\* run() without check=True: no exit code raises
CalledProcessError_unchecked(rc) == FALSE

\* subprocess.run(..., check=True) raises CalledProcessError
CalledProcessError(rc) == rc # 0

Init ==
    /\ pc = "resolve"
    /\ baseExists \in BOOLEAN
    /\ files \in (IF baseExists THEN InitialFiles ELSE {NoFiles})
    /\ dirs = InitialDirs(files)
    /\ before = files
    /\ dirsBefore = dirs
    /\ include_web = FALSE
    /\ idx = 1
    /\ gh_ready = FALSE
    /\ visAnswer = <<>>
    /\ visibility = <<>>
    /\ trace = <<>>

----------------------------------------------------------------------------
(* main, up to the scaffold stage *)

\* main_resolve with the mkdir done before the prompt
main_resolve_mkdir_first ==
    /\ pc = "resolve"
    /\ IF ~baseExists
       THEN \E raw \in YesNoAnswers :
              /\ baseExists' = TRUE
              /\ IF Normalize(raw) # <<"y">>
                 THEN /\ trace' = trace \o <<Prompt("create_dir", "", FALSE),
                                             Printed("Aborting.", "")>>
                      /\ pc' = "done"
                 ELSE /\ trace' = Append(trace, Prompt("create_dir", "", TRUE))
                      /\ pc' = "include_web"
       ELSE /\ pc' = "include_web"
            /\ UNCHANGED <<baseExists, trace>>
    /\ UNCHANGED <<dirs, files, before, dirsBefore, include_web, idx, gh_ready,
                   visAnswer, visibility>>

\* main: resolve the target; ask before creating a missing directory
main_resolve ==
    /\ pc = "resolve"
    /\ IF ~baseExists
       THEN \E raw \in YesNoAnswers :
              IF Normalize(raw) # <<"y">>
              THEN /\ trace' = trace \o <<Prompt("create_dir", "", FALSE),
                                          Printed("Aborting.", "")>>
                   /\ pc' = "done"
                   /\ UNCHANGED baseExists
              ELSE /\ trace' = Append(trace, Prompt("create_dir", "", TRUE))
                   /\ baseExists' = TRUE
                   /\ pc' = "include_web"
       ELSE /\ pc' = "include_web"
            /\ UNCHANGED <<baseExists, trace>>
    /\ UNCHANGED <<dirs, files, before, dirsBefore, include_web, idx, gh_ready,
                   visAnswer, visibility>>

\* main: the web option
main_include_web ==
    /\ pc = "include_web"
    /\ \E raw \in YesNoAnswers :
         /\ include_web' = IsYes(raw)
         /\ trace' = Append(trace, Prompt("include_web", "", IsYes(raw)))
    /\ pc' = "mkdir"
    /\ UNCHANGED <<baseExists, dirs, files, before, dirsBefore, idx, gh_ready,
                   visAnswer, visibility>>

----------------------------------------------------------------------------
(* Scaffold stage *)

\* create_project_structure: the mkdir loop (exist_ok=True)
create_project_structure_mkdir ==
    /\ pc = "mkdir"
    /\ dirs' = dirs \cup DirsFor(include_web)
    /\ idx' = 1
    /\ pc' = "write"
    /\ UNCHANGED <<baseExists, files, before, dirsBefore, include_web, gh_ready,
                   visAnswer, visibility, trace>>

\* safe_write_file without the return after "Skipping"
safe_write_file_no_return(filepath, content, raw) ==
    IF files[filepath] # Absent
    THEN IF Normalize(raw) # <<"y">>
         THEN /\ files' = [files EXCEPT ![filepath] = content]
              /\ trace' = trace \o <<Prompt("overwrite", filepath, FALSE),
                                     Printed("Skipping", filepath),
                                     Printed("Created", filepath)>>
         ELSE /\ files' = [files EXCEPT ![filepath] = content]
              /\ trace' = trace \o <<Prompt("overwrite", filepath, TRUE),
                                     Printed("Created", filepath)>>
    ELSE /\ files' = [files EXCEPT ![filepath] = content]
         /\ trace' = Append(trace, Printed("Created", filepath))

\* safe_write_file(filepath, content), raw being the answer typed if it prompts
safe_write_file(filepath, content, raw) ==
    IF files[filepath] # Absent
    THEN IF Normalize(raw) # <<"y">>
         THEN /\ files' = files
              /\ trace' = trace \o <<Prompt("overwrite", filepath, FALSE),
                                     Printed("Skipping", filepath)>>
         ELSE /\ files' = [files EXCEPT ![filepath] = content]
              /\ trace' = trace \o <<Prompt("overwrite", filepath, TRUE),
                                     Printed("Created", filepath)>>
    ELSE /\ files' = [files EXCEPT ![filepath] = content]
         /\ trace' = Append(trace, Printed("Created", filepath))

\* create_project_structure: the next safe_write_file call
create_project_structure_write ==
    /\ pc = "write"
    /\ idx <= WritesFor(include_web)
    /\ \E raw \in YesNoAnswers :
         safe_write_file(FileOrder[idx], Template(FileOrder[idx]), raw)
    /\ idx' = idx + 1
    /\ pc' = IF idx = WritesFor(include_web) THEN "venv" ELSE "write"
    /\ UNCHANGED <<baseExists, dirs, before, dirsBefore, include_web, gh_ready,
                   visAnswer, visibility>>

----------------------------------------------------------------------------
(* Environment and version-control stages *)

\* run(cmd): an exit code other than 0 raises and nothing catches it
run(cmd, rc, next) ==
    /\ trace' = Append(trace, Cmd(cmd, rc))
    /\ pc' = IF CalledProcessError(rc) THEN "crashed" ELSE next

Frame == UNCHANGED <<baseExists, dirs, files, before, dirsBefore, include_web, idx,
                     gh_ready, visAnswer, visibility>>

create_venv_and_install_venv ==
    /\ pc = "venv"
    /\ \E rc \in ExitCodes : run("python3 -m venv .venv", rc, "pip_upgrade")
    /\ Frame

create_venv_and_install_upgrade ==
    /\ pc = "pip_upgrade"
    /\ \E rc \in ExitCodes : run("./.venv/bin/pip install --upgrade pip", rc, "pip_install")
    /\ Frame

create_venv_and_install_deps ==
    /\ pc = "pip_install"
    /\ \E rc \in ExitCodes :
         run("./.venv/bin/pip install -r requirements.txt -r requirements-dev.txt",
             rc, "git_init")
    /\ Frame

init_git_repo_init ==
    /\ pc = "git_init"
    /\ \E rc \in ExitCodes : run("git init", rc, "git_add")
    /\ Frame

init_git_repo_add ==
    /\ pc = "git_add"
    /\ \E rc \in ExitCodes : run("git add .", rc, "git_commit")
    /\ Frame

\* the commit without the try/except around it
init_git_repo_commit_uncaught ==
    /\ pc = "git_commit"
    /\ \E rc \in ExitCodes :
         /\ trace' = Append(trace, Cmd("git commit -m 'Initial project scaffold'", rc))
         /\ pc' = IF rc # 0 THEN "crashed" ELSE "gh_installed"
    /\ UNCHANGED <<baseExists, dirs, files, before, dirsBefore, include_web, idx,
                   gh_ready, visAnswer, visibility>>

\* init_git_repo: the commit, inside try/except CalledProcessError
init_git_repo_commit ==
    /\ pc = "git_commit"
    /\ \E rc \in ExitCodes :
         trace' = IF CalledProcessError(rc)
                  THEN trace \o <<Cmd("git commit -m 'Initial project scaffold'", rc),
                                  Printed("Git commit failed", "")>>
                  ELSE Append(trace, Cmd("git commit -m 'Initial project scaffold'", rc))
    /\ pc' = "gh_installed"
    /\ Frame

----------------------------------------------------------------------------
(* Hosting stage *)

HostFrame == UNCHANGED <<baseExists, dirs, files, before, dirsBefore, include_web, idx>>

\* gh_authenticated() returning the exit code itself, truthy when non-zero
gh_authenticated_truthy(rc) == rc # 0

\* gh_authenticated(): the exit code of  gh auth status  is 0
gh_authenticated(rc) == rc = 0

\* main: gh_ready = github_cli_installed(), and the branch on it
main_gh_installed ==
    /\ pc = "gh_installed"
    /\ \E found \in BOOLEAN :
         /\ gh_ready' = found
         /\ trace' = Append(trace, Which("gh", found))
         /\ pc' = IF ~found THEN "offer_install" ELSE "push"
    /\ HostFrame
    /\ UNCHANGED <<visAnswer, visibility>>

\* main: the install prompt; anything but y leaves gh_ready as it is
main_offer_install ==
    /\ pc = "offer_install"
    /\ \E raw \in YesNoAnswers :
         /\ trace' = Append(trace, Prompt("install_gh", "", IsYes(raw)))
         /\ pc' = IF IsYes(raw) THEN "install" ELSE "push"
    /\ HostFrame
    /\ UNCHANGED <<gh_ready, visAnswer, visibility>>

Systems == {"Darwin", "Linux", "Windows"}

\* install_github_cli: the installer command for the platform, "" when there is none
Installer(system, brew, apt, dnf) ==
    CASE system = "Darwin" /\ brew -> "brew install gh"
      [] system = "Linux" /\ apt -> "sudo apt update && sudo apt install -y gh"
      [] system = "Linux" /\ ~apt /\ dnf -> "sudo dnf install -y gh"
      [] OTHER -> ""

\* install_github_cli: the message printed when it returns False without installing
Unsupported(system) ==
    CASE system = "Darwin" -> "Homebrew is not installed"
      [] system = "Linux" -> "Unsupported Linux package manager"
      [] OTHER -> "installation not supported on this OS"

\* main: gh_ready = install_github_cli()
install_github_cli ==
    /\ pc = "install"
    /\ \E system \in Systems, brew \in BOOLEAN, apt \in BOOLEAN, dnf \in BOOLEAN :
         LET cmd == Installer(system, brew, apt, dnf) IN
         IF cmd = ""
         THEN /\ trace' = Append(trace, Printed(Unsupported(system), ""))
              /\ gh_ready' = FALSE
              /\ pc' = "push"
         ELSE \E rc \in ExitCodes :
                IF CalledProcessError(rc)
                THEN /\ trace' = trace \o <<Printed("Installing GitHub CLI", ""), Cmd(cmd, rc)>>
                     /\ pc' = "crashed"
                     /\ UNCHANGED gh_ready
                ELSE \E found \in BOOLEAN :
                       /\ trace' = trace \o <<Printed("Installing GitHub CLI", ""),
                                              Cmd(cmd, rc), Which("gh", found)>>
                       /\ gh_ready' = found
                       /\ pc' = "push"
    /\ HostFrame
    /\ UNCHANGED <<visAnswer, visibility>>

\* the push prompt without the test of gh_ready
main_ask_push_unguarded ==
    /\ pc = "push"
    /\ \E raw \in YesNoAnswers :
         /\ trace' = Append(trace, Prompt("push", "", IsYes(raw)))
         /\ pc' = IF IsYes(raw) THEN "gh_version" ELSE "final"
    /\ UNCHANGED <<baseExists, dirs, files, before, dirsBefore, include_web, idx,
                   gh_ready, visAnswer, visibility>>

\* main: if gh_ready, the push prompt
main_ask_push ==
    /\ pc = "push"
    /\ IF gh_ready
       THEN \E raw \in YesNoAnswers :
              /\ trace' = Append(trace, Prompt("push", "", IsYes(raw)))
              /\ pc' = IF IsYes(raw) THEN "gh_version" ELSE "final"
       ELSE /\ pc' = "final"
            /\ UNCHANGED trace
    /\ HostFrame
    /\ UNCHANGED <<gh_ready, visAnswer, visibility>>

\* push_to_github: gh --version, FileNotFoundError caught
push_to_github_version ==
    /\ pc = "gh_version"
    /\ \/ /\ trace' = Append(trace, Ran("gh --version"))
          /\ pc' = "auth"
       \/ /\ trace' = Append(trace, Printed("GitHub CLI is not installed or not in PATH", ""))
          /\ pc' = "final"
    /\ HostFrame
    /\ UNCHANGED <<gh_ready, visAnswer, visibility>>

\* push_to_github: the first gh_authenticated()
push_to_github_auth ==
    /\ pc = "auth"
    /\ \E rc \in ExitCodes :
         IF ~gh_authenticated(rc)
         THEN /\ trace' = trace \o <<Cmd("gh auth status", rc),
                                     Printed("GitHub CLI is not authenticated", "")>>
              /\ pc' = "ask_login"
         ELSE /\ trace' = Append(trace, Cmd("gh auth status", rc))
              /\ pc' = "visibility"
    /\ HostFrame
    /\ UNCHANGED <<gh_ready, visAnswer, visibility>>

\* push_to_github: the login prompt
push_to_github_ask_login ==
    /\ pc = "ask_login"
    /\ \E raw \in YesNoAnswers :
         IF IsYes(raw)
         THEN /\ trace' = Append(trace, Prompt("login", "", TRUE))
              /\ pc' = "login"
         ELSE /\ trace' = trace \o <<Prompt("login", "", FALSE),
                                     Printed("Skipping GitHub push due to lack of authentication", "")>>
              /\ pc' = "final"
    /\ HostFrame
    /\ UNCHANGED <<gh_ready, visAnswer, visibility>>

\* the login step without the return in its except branch
push_to_github_login_no_return ==
    /\ pc = "login"
    /\ \E rc \in ExitCodes :
         /\ trace' = IF rc # 0
                      THEN trace \o <<Cmd("gh auth login", rc),
                                      Printed("Authentication failed or was cancelled", "")>>
                      ELSE Append(trace, Cmd("gh auth login", rc))
         /\ pc' = "reauth"
    /\ UNCHANGED <<baseExists, dirs, files, before, dirsBefore, include_web, idx,
                   gh_ready, visAnswer, visibility>>

\* push_to_github: gh auth login, inside try/except CalledProcessError
push_to_github_login ==
    /\ pc = "login"
    /\ \E rc \in ExitCodes :
         IF CalledProcessError(rc)
         THEN /\ trace' = trace \o <<Cmd("gh auth login", rc),
                                     Printed("Authentication failed or was cancelled", "")>>
              /\ pc' = "final"
         ELSE /\ trace' = Append(trace, Cmd("gh auth login", rc))
              /\ pc' = "reauth"
    /\ HostFrame
    /\ UNCHANGED <<gh_ready, visAnswer, visibility>>

\* push_to_github: gh_authenticated() again after the login
push_to_github_reauth ==
    /\ pc = "reauth"
    /\ \E rc \in ExitCodes :
         IF ~gh_authenticated(rc)
         THEN /\ trace' = trace \o <<Cmd("gh auth status", rc),
                                     Printed("Still not authenticated after gh auth login", "")>>
              /\ pc' = "final"
         ELSE /\ trace' = Append(trace, Cmd("gh auth status", rc))
              /\ pc' = "visibility"
    /\ HostFrame
    /\ UNCHANGED <<gh_ready, visAnswer, visibility>>

\* the visibility test on the answer as typed, without strip().lower()
Visibility_as_typed(raw) ==
    IF raw \notin {Public, Private} THEN Private ELSE raw

\* push_to_github: visibility not in ("public", "private") falls back to private
Visibility(raw) ==
    IF Normalize(raw) \notin {Public, Private} THEN Private ELSE Normalize(raw)

\* push_to_github: the visibility prompt
push_to_github_visibility ==
    /\ pc = "visibility"
    /\ \E raw \in VisibilityAnswers :
         /\ visAnswer' = raw
         /\ visibility' = Visibility(raw)
    /\ trace' = Append(trace, Ev("prompt", "visibility", "", "", 0))
    /\ pc' = "create"
    /\ HostFrame
    /\ UNCHANGED gh_ready

\* the command line  gh repo create {name} --source=. --{visibility} --push
CreateCommand(v) ==
    IF v = Public THEN "gh repo create demo --source=. --public --push"
    ELSE "gh repo create demo --source=. --private --push"

\* push_to_github: the create-and-push command, through run()
push_to_github_create ==
    /\ pc = "create"
    /\ \E rc \in ExitCodes : run(CreateCommand(visibility), rc, "final")
    /\ Frame

\* main: the last line
main_final ==
    /\ pc = "final"
    /\ trace' = Append(trace, Printed("Project created", ""))
    /\ pc' = "done"
    /\ Frame

Next ==
    \/ main_resolve
    \/ main_include_web
    \/ create_project_structure_mkdir
    \/ create_project_structure_write
    \/ create_venv_and_install_venv
    \/ create_venv_and_install_upgrade
    \/ create_venv_and_install_deps
    \/ init_git_repo_init
    \/ init_git_repo_add
    \/ init_git_repo_commit
    \/ main_gh_installed
    \/ main_offer_install
    \/ install_github_cli
    \/ main_ask_push
    \/ push_to_github_version
    \/ push_to_github_auth
    \/ push_to_github_ask_login
    \/ push_to_github_login
    \/ push_to_github_reauth
    \/ push_to_github_visibility
    \/ push_to_github_create
    \/ main_final

Spec == Init /\ [][Next]_vars

\* runs on a target that is missing or holds none of the template files
InitEmptyTarget == Init /\ Existing(files) = {}

SpecEmptyTarget == InitEmptyTarget /\ [][Next]_vars

----------------------------------------------------------------------------
(* Reading the trace *)

Idx == 1..Len(trace)

VenvCmd == "python3 -m venv .venv"
UpgradeCmd == "./.venv/bin/pip install --upgrade pip"
DepsCmd == "./.venv/bin/pip install -r requirements.txt -r requirements-dev.txt"
CommitCmd == "git commit -m 'Initial project scaffold'"
FatalCmds == {VenvCmd, UpgradeCmd, DepsCmd, "git init", "git add ."}
InstallerCmds ==
    {"brew install gh", "sudo apt update && sudo apt install -y gh", "sudo dnf install -y gh"}
CreatePublic == "gh repo create demo --source=. --public --push"
CreatePrivate == "gh repo create demo --source=. --private --push"
CreateCmds == {CreatePublic, CreatePrivate}

IsCmd(i, names) == trace[i].kind = "cmd" /\ trace[i].name \in names
Failed(i) == trace[i].kind = "cmd" /\ trace[i].rc # 0
IsPrompt(i, what) == trace[i].kind = "prompt" /\ trace[i].name = what
Accepted(i, what) == IsPrompt(i, what) /\ trace[i].ans = "y"
Declined(i, what) == IsPrompt(i, what) /\ trace[i].ans # "y"
IsPrint(i, what) == trace[i].kind = "print" /\ trace[i].name = what
IsWhichGh(i) == trace[i].kind = "which" /\ trace[i].name = "gh"

Created(i) == IsCmd(i, CreateCmds)
AuthQuery(i) == IsCmd(i, {"gh auth status"})
LoginCmd(i) == IsCmd(i, {"gh auth login"})

\* the last position before i that satisfies P, 0 when there is none
LastBefore(i, P(_)) ==
    LET S == { j \in 1..(i - 1) : P(j) } IN
    IF S = {} THEN 0 ELSE CHOOSE j \in S : \A k \in S : k <= j

SuccessPrinted == \E i \in Idx : IsPrint(i, "Project created")
EndsWithSuccess == trace # <<>> /\ IsPrint(Len(trace), "Project created")

\* the files safe_write_file has been called on so far
Processed ==
    IF pc \in {"resolve", "include_web", "mkdir"} THEN {}
    ELSE { FileOrder[i] : i \in 1..(idx - 1) }

OverwriteAccepted(f) == \E i \in Idx : Accepted(i, "overwrite") /\ trace[i].file = f
OverwriteAsked(f) == \E i \in Idx : IsPrompt(i, "overwrite") /\ trace[i].file = f

----------------------------------------------------------------------------
(* C1: a template file that existed before the run is changed only if its  *)
(* own overwrite prompt was answered y; otherwise it keeps its content; a  *)
(* file that was absent, or whose overwrite was accepted, holds exactly    *)
(* the template text once safe_write_file has been called on it; checked   *)
(* after each safe_write_file call and when the scaffold stage has ended.  *)
C1_OverwriteOnlyOnConsent ==
    pc \in {"write", "venv"} =>
    /\ \A f \in Processed :
         /\ (before[f] # Absent /\ files[f] # before[f]) => OverwriteAccepted(f)
         /\ (before[f] # Absent /\ ~OverwriteAccepted(f)) => files[f] = before[f]
         /\ (before[f] = Absent \/ OverwriteAccepted(f)) => files[f] = Template(f)
         /\ OverwriteAsked(f) <=> before[f] # Absent
    /\ \A f \in AllFiles \ Processed : files[f] = before[f]
    /\ pc = "venv" => Processed = FilesFor(include_web)

C1_Witness ==
    /\ pc = "venv"
    /\ \E f \in AllFiles, g \in AllFiles :
         /\ before[f] = OldContent /\ OverwriteAccepted(f) /\ files[f] = Template(f)
         /\ before[g] = OldContent /\ OverwriteAsked(g) /\ ~OverwriteAccepted(g)
         /\ files[g] = OldContent
    /\ \E h \in AllFiles : before[h] = Absent /\ files[h] = Template(h)

(* C2: gh repo create ... --push is run only after the most recent probe   *)
(* for gh found it, gh_ready is true, gh --version ran, the most recent    *)
(* gh auth status exited 0, and no login was declined or failed.           *)
C2_PushOnlyPresentAndAuthenticated ==
    \A i \in Idx : Created(i) =>
        /\ gh_ready
        /\ LastBefore(i, IsWhichGh) # 0
        /\ trace[LastBefore(i, IsWhichGh)].ans = "found"
        /\ \E j \in 1..(i - 1) : IsCmd(j, {"gh --version"})
        /\ LastBefore(i, AuthQuery) # 0
        /\ trace[LastBefore(i, AuthQuery)].rc = 0
        /\ \A j \in Idx : ~Declined(j, "login") /\ ~Declined(j, "install_gh")
                          /\ ~Declined(j, "push") /\ ~(LoginCmd(j) /\ Failed(j))

C2_Witness ==
    \E i \in Idx, j \in Idx, k \in Idx :
        /\ Created(i) /\ IsCmd(j, InstallerCmds) /\ LoginCmd(k)
        /\ j < k /\ k < i

(* C3: once the version-control stage is over, no step of the hosting      *)
(* stage aborts the run: the run never crashes after the commit, and when  *)
(* it ends it has printed the success line.                                *)
C3_HostingNeverAborts ==
    (\E i \in Idx : IsCmd(i, {CommitCmd})) =>
        /\ pc # "crashed"
        /\ pc = "done" => EndsWithSuccess

(* C4 as stated: the push prompt is shown only after gh was found and      *)
(* gh auth status exited 0; a login prompt comes before any push prompt;   *)
(* after a declined or failed login no push prompt is shown.               *)
C4_PushPromptOnlyWhenAuthenticated ==
    /\ \A i \in Idx : IsPrompt(i, "push") =>
         /\ LastBefore(i, IsWhichGh) # 0
         /\ trace[LastBefore(i, IsWhichGh)].ans = "found"
         /\ \E j \in 1..(i - 1) : AuthQuery(j) /\ trace[j].rc = 0
    /\ \A i \in Idx, j \in Idx : (IsPrompt(i, "login") /\ IsPrompt(j, "push")) => i < j
    /\ (\E i \in Idx : Declined(i, "login") \/ (LoginCmd(i) /\ Failed(i)))
         => ~(\E j \in Idx : IsPrompt(j, "push"))

(* C4 amended: the push prompt is shown only after gh was found, and       *)
(* before any gh auth status query; the login prompt is shown only after   *)
(* the push prompt was answered y and gh auth status failed; after a       *)
(* declined or failed login neither the visibility prompt is shown nor the *)
(* create command run.                                                     *)
C4_PromptOrder ==
    /\ \A i \in Idx : IsPrompt(i, "push") =>
         /\ gh_ready
         /\ LastBefore(i, IsWhichGh) # 0
         /\ trace[LastBefore(i, IsWhichGh)].ans = "found"
         /\ ~(\E j \in 1..(i - 1) : AuthQuery(j))
    /\ \A i \in Idx : IsPrompt(i, "login") =>
         /\ \E j \in 1..(i - 1) : Accepted(j, "push")
         /\ LastBefore(i, AuthQuery) # 0
         /\ trace[LastBefore(i, AuthQuery)].rc # 0
    /\ \A i \in Idx : IsPrompt(i, "visibility") =>
         /\ LastBefore(i, AuthQuery) # 0
         /\ trace[LastBefore(i, AuthQuery)].rc = 0
    /\ (\E i \in Idx : Declined(i, "login") \/ (LoginCmd(i) /\ Failed(i)))
         => ~(\E j \in Idx : IsPrompt(j, "visibility") \/ Created(j))

C4_Witness ==
    /\ pc = "done"
    /\ \E i \in Idx, j \in Idx, k \in Idx :
         /\ Accepted(i, "push") /\ AuthQuery(j) /\ Failed(j) /\ Declined(k, "login")
         /\ i < j /\ j < k

(* C5: a fatal step (venv creation, pip upgrade, dependency installation,  *)
(* git init, git add) that exits non-zero is the last thing the run does:  *)
(* no command, prompt or message follows it, it is not run again, and the  *)
(* success line is not printed.                                            *)
C5_FatalStepStopsRun ==
    /\ \A i \in Idx : (IsCmd(i, FatalCmds) /\ Failed(i)) =>
         /\ i = Len(trace)
         /\ pc = "crashed"
         /\ ~SuccessPrinted
    /\ \A i \in Idx, j \in Idx :
         (IsCmd(i, FatalCmds) /\ IsCmd(j, FatalCmds) /\ trace[i].name = trace[j].name)
            => i = j

C5_Witness ==
    /\ pc = "crashed"
    /\ IsCmd(Len(trace), {"git add ."}) /\ Failed(Len(trace))
    /\ \E i \in Idx : IsCmd(i, {DepsCmd}) /\ ~Failed(i)

(* C6: when the target is missing and the create-directory prompt gets any *)
(* answer but y, the run ends normally with the filesystem as it was, no   *)
(* command run, no other prompt shown, and only the abort notice printed.  *)
C6_DeclinedCreateHasNoEffect ==
    (trace # <<>> /\ Declined(1, "create_dir")) =>
        /\ trace = <<Prompt("create_dir", "", FALSE), Printed("Aborting.", "")>>
        /\ pc = "done"
        /\ ~baseExists
        /\ files = before /\ files = NoFiles
        /\ dirs = dirsBefore /\ dirs = {}

C6_Witness ==
    /\ pc = "done"
    /\ ~baseExists
    /\ Len(trace) = 2 /\ Declined(1, "create_dir") /\ IsPrint(2, "Aborting.")

(* C7: at the moment venv creation or git init is started, the target,     *)
(* every directory of the fixed set (and of the web set when enabled) and  *)
(* every template file of the run exist, whatever the overwrite answers.   *)
C7_ScaffoldBeforeEnvAndRepo ==
    (pc \in {"venv", "git_init"} \/ (\E i \in Idx : IsCmd(i, {VenvCmd, "git init"}))) =>
        /\ baseExists
        /\ BaseDirs \subseteq dirs
        /\ include_web => WebDirs \subseteq dirs
        /\ \A f \in AllFiles \ WebFiles : files[f] # Absent
        /\ include_web => \A f \in WebFiles : files[f] # Absent

C7_Witness ==
    /\ pc = "git_init"
    /\ include_web
    /\ \E f \in AllFiles : OverwriteAsked(f) /\ ~OverwriteAccepted(f)
    /\ \E f \in WebFiles : before[f] = Absent

(* C8: a failing git commit is followed by the warning and nothing is      *)
(* raised; the run goes on to the gh probe exactly as after a successful   *)
(* commit, and ends with the success line unless a later command aborts it.*)
C8_CommitFailureIsWarning ==
    \A i \in Idx : IsCmd(i, {CommitCmd}) =>
        /\ Failed(i) => (i < Len(trace) /\ IsPrint(i + 1, "Git commit failed"))
        /\ ~Failed(i) => ~(\E j \in Idx : IsPrint(j, "Git commit failed"))
        /\ LET n == IF Failed(i) THEN i + 2 ELSE i + 1 IN
             /\ n > Len(trace) => pc = "gh_installed"
             /\ n <= Len(trace) => IsWhichGh(n)
        /\ pc = "done" => EndsWithSuccess
        /\ pc = "crashed" =>
             (Len(trace) > i /\ Failed(Len(trace))
                /\ IsCmd(Len(trace), InstallerCmds \cup CreateCmds))

C8_Witness ==
    /\ pc = "done"
    /\ EndsWithSuccess
    /\ \E i \in Idx : IsCmd(i, {CommitCmd}) /\ Failed(i)
    /\ \E i \in Idx : Created(i)

(* C9: from present-and-unauthenticated, a declined login prompt skips the *)
(* push without running gh auth login; an accepted one runs it exactly     *)
(* once; a failed login, or a successful one after which gh auth status    *)
(* still fails, skips the push with a message; the create command is run   *)
(* only after a successful login followed by a successful gh auth status.  *)
C9_LoginFlow ==
    /\ \A i \in Idx : Declined(i, "login") =>
         /\ ~(\E j \in Idx : LoginCmd(j) \/ Created(j) \/ IsPrompt(j, "visibility"))
         /\ i < Len(trace)
         /\ IsPrint(i + 1, "Skipping GitHub push due to lack of authentication")
         /\ pc \in {"final", "done"}
    /\ Cardinality({ j \in Idx : LoginCmd(j) }) <= 1
    /\ \A i \in Idx : Accepted(i, "login") =>
         \/ pc = "login" /\ i = Len(trace)
         \/ i < Len(trace) /\ LoginCmd(i + 1)
    /\ \A i \in Idx : LoginCmd(i) =>
         /\ i > 1 /\ Accepted(i - 1, "login")
         /\ Failed(i) =>
              /\ ~(\E j \in Idx : Created(j) \/ IsPrompt(j, "visibility"))
              /\ i < Len(trace) /\ IsPrint(i + 1, "Authentication failed or was cancelled")
              /\ pc \in {"final", "done"}
         /\ (~Failed(i) /\ i < Len(trace)) =>
              /\ AuthQuery(i + 1)
              /\ Failed(i + 1) =>
                   /\ ~(\E j \in Idx : Created(j) \/ IsPrompt(j, "visibility"))
                   /\ i + 1 < Len(trace)
                   /\ IsPrint(i + 2, "Still not authenticated after gh auth login")
                   /\ pc \in {"final", "done"}
    /\ \A i \in Idx : (Created(i) /\ \E j \in Idx : IsPrompt(j, "login")) =>
         \E k \in 1..(i - 1) :
            LoginCmd(k) /\ ~Failed(k) /\ AuthQuery(k + 1) /\ ~Failed(k + 1)

C9_Witness ==
    /\ pc = "done"
    /\ \E i \in Idx, k \in Idx :
         /\ Accepted(i, "login") /\ LoginCmd(i + 1) /\ ~Failed(i + 1)
         /\ AuthQuery(i + 2) /\ ~Failed(i + 2)
         /\ Created(k) /\ i + 2 < k

\* the answers that, trimmed and lower-cased, read public
PublicAnswers ==
    Padded({ <<"p", "u", "b", "l", "i", "c">>, <<"P", "u", "b", "l", "i", "c">> })

(* C10: the repository is created public only if the visibility answer,    *)
(* trimmed and lower-cased, is exactly public, and private for every other *)
(* answer; the create command is issued exactly once, with --push.         *)
C10_VisibilityDefaultsToPrivate ==
    /\ \A i \in Idx : Created(i) =>
         /\ visAnswer \in PublicAnswers => trace[i].name = CreatePublic
         /\ visAnswer \notin PublicAnswers => trace[i].name = CreatePrivate
    /\ Cardinality({ i \in Idx : Created(i) }) <= 1
    /\ (pc \in {"final", "done", "crashed"} /\ \E j \in Idx : IsPrompt(j, "visibility"))
         => Created(Len(trace)) \/ Created(Len(trace) - 1)

C10_Witness ==
    /\ pc = "done"
    /\ visAnswer = <<" ", "P", "u", "b", "l", "i", "c", " ">>
    /\ \E i \in Idx : trace[i].kind = "cmd" /\ trace[i].name = CreatePublic

====
